---- MODULE Spec2Model ----
(***************************************************************************)
(* The tap manager of virtlet: the FD server (pkg/tapmanager/fdserver.go)  *)
(* with its accept loop, per-connection handlers and FD registry, and the  *)
(* tap FD source (TapFDSource) with the per-pod kernel resources it        *)
(* acquires and releases.                                                  *)
(***************************************************************************)
EXTENDS Naturals, FiniteSets, Sequences, TLC

(* ------------------------------ bounds -------------------------------- *)
\* requests the clients send in one behaviour, over all connections
MaxReqs == 2
\* calls of TapFDSource.Release the pod controller makes in one behaviour
MaxReleases == 2
\* transient accept failures in one behaviour
MaxAcceptErrs == 9
\* calls made on one FakeCNIClient
MaxFakeCalls == 3
\* width of the header's key field, scaled down from [64]byte
KeyWidth == 3

Conns == {"c1", "c2"}
\* keys the clients use, as byte strings
Keys == {<<"a">>, <<"b">>}
Pods == {"p1", "p2"}
\* ADD payloads: the JSON of a pod descriptor (named by its pod id), or bytes
\* json.Unmarshal rejects
Malformed == "malformed"
Payloads == Pods \cup {Malformed}
\* descriptor numbers the kernel hands out for tap files (lowest free first)
FdNums == {3, 4}

(* --------------------------- wire constants --------------------------- *)
fdMagic == 1111638594
fdAdd == 0
fdRelease == 1
fdGet == 2
fdResponse == 128
fdAddResponse == fdAdd + fdResponse
fdReleaseResponse == fdRelease + fdResponse
fdGetResponse == fdGet + fdResponse
fdError == 255
\* a magic other than fdMagic and a command above the three defined ones
BadMagic == fdMagic - 1
BadCommand == fdGet + 1
minAcceptErrorDelay == 5
maxAcceptErrorDelay == 1000

\* the descriptor getFD and GetFD return beside an error
NoFd == 0
NoReq == [magic |-> 0, cmd |-> 0, key |-> <<>>, data |-> "none"]
NoResp == [cmd |-> 0, key |-> <<>>, data |-> <<>>, fd |-> NoFd]
NoLoc == [pod |-> "none", fd |-> NoFd]

(* ------------------------------ key codec ----------------------------- *)
\* fdKey: the key copied into the fixed field, padded with spaces (byte 32)
fdKey(key) ==
    [n \in 1..KeyWidth |-> IF n <= Len(key) THEN key[n] ELSE " "]

RECURSIVE TrimLeft(_)
TrimLeft(s) ==
    IF s # <<>> /\ Head(s) = " " THEN TrimLeft(Tail(s)) ELSE s

RECURSIVE TrimRight(_)
TrimRight(s) ==
    IF s # <<>> /\ s[Len(s)] = " " THEN TrimRight(SubSeq(s, 1, Len(s) - 1)) ELSE s

\* fdHeader.GetKey: strings.TrimSpace of the key field
GetKey(field) == TrimLeft(TrimRight(field))

\* the keys the server decodes from the clients' key fields
\* keys a caller may pass to FDClient.AddFD: besides the plain ones, a key
\* with a leading space, one with a trailing space, the empty key and one a
\* byte longer than the key field
LongKey == [n \in 1..(KeyWidth + 1) |-> "a"]
ClientKeys == Keys \cup {<<" ", "a">>, <<"a", " ">>, <<>>, LongKey}
DecodedKeys == {GetKey(fdKey(k)) : k \in Keys \cup ClientKeys}

(* ------------------------------- state -------------------------------- *)
VARIABLES
    fds,        \* FDServer.fds: the FD registry, key -> descriptor
    stopCh,     \* FDServer.stopCh: "nil" or "open"
    chClosed,   \* the channel made by Serve has been closed
    sl,         \* FDServer.l: "nil" or "listener"
    lOpen,      \* the listening socket made by Serve is open
    acceptPc,   \* accept loop: "none", "accept", "backoff", "exited"
    sel,        \* what the backoff select read from s.stopCh: "nil" or "chan"
    delay,      \* the accept loop's delay, in ms
    acceptErrs, \* transient accept failures so far
    conn,       \* per connection: "none", "pending", "open", "eof", "bad magic"
    req,        \* per connection: the request on the wire or being served
    pc,         \* per connection: the handler's position
    loc,        \* per connection: the handler's locals (pod, fd)
    resp,       \* per connection: the response the handler has built
    reply,      \* per connection: the response the client received last and
                \* has not yet followed with another request
    nreq,       \* requests sent so far
    callKey,    \* per connection: <<key>> for the key the caller of a pending
                \* or finished FDClient.AddFD passed, <<>> without such a call
    fdMap,      \* TapFDSource.fdMap: key -> podNetwork
    netns,      \* pods whose network namespace exists
    attached,   \* pods attached to the container network
    taps,       \* pod -> descriptor of its open tap file, or NoFd
    dhcp,       \* pod -> "none", "serving", "sending", "delivered"
    relPc,      \* controller's Release call: "idle", "wait", "delete"
    relKey,     \* the key of the Release call in progress
    relPod,     \* the pod of the entry that call looked up
    nrel,       \* Release calls that went on to the teardown so far
    crashed,    \* the runtime aborted the process (concurrent map access);
                \* nothing runs afterwards
    lastOp,     \* history, per decoded key: the last registry operation on it
                \* ("none", "added", "acked" once the ADD response is written,
                \* "released") and the descriptor and pod of the last
                \* successful ADD
    pndDNS,     \* GetFD seen alone: the pointer pnd.DNS, <<>> for nil or
                \* <<block>>
    cniResult,  \* GetFD seen alone: the result AddSandboxToNetwork returned
    respData,   \* GetFD seen alone: <<the bytes it returned>>, <<>> before
    fake,       \* a FakeCNIClient: podId, podName, podNS, added, removed
    fakeHist    \* history of the calls made on the FakeCNIClient

srvVars == <<stopCh, chClosed, sl, lOpen, acceptPc, sel, delay, acceptErrs>>
connVars == <<conn, req, pc, loc, resp, reply, nreq, callKey>>
srcVars == <<fdMap, netns, attached, taps, dhcp>>
relVars == <<relPc, relKey, relPod, nrel>>
unitVars == <<pndDNS, cniResult, respData, fake, fakeHist>>
vars == <<fds, srvVars, connVars, srcVars, relVars, crashed, lastOp, unitVars>>

\* the values of a DNS block, a network result and a FakeCNIClient where
\* none is under study
NoResult == [dns |-> <<>>, rest |-> "none"]
NoFake == [podId |-> "none", podName |-> "none", podNS |-> "none",
           added |-> FALSE, removed |-> FALSE]
NoHist == [calls |-> 0, addCalled |-> FALSE, removeCalled |-> FALSE, addOk |-> 0,
           removeOk |-> 0, panicked |-> FALSE, last |-> "none",
           lastPod |-> <<>>]

\* no GetFD result and no FakeCNIClient is under study
UnitIdle ==
    /\ pndDNS = <<>>
    /\ cniResult = NoResult
    /\ respData = <<>>
    /\ fake = NoFake
    /\ fakeHist = NoHist

\* NewFDServer, NewTapFDSource: empty registry and table, nothing listening
Init ==
    /\ fds = [k \in {} |-> NoFd]
    /\ stopCh = "nil"
    /\ chClosed = FALSE
    /\ sl = "nil"
    /\ lOpen = FALSE
    /\ acceptPc = "none"
    /\ sel = "nil"
    /\ delay = 0
    /\ acceptErrs = 0
    /\ conn = [c \in Conns |-> "none"]
    /\ req = [c \in Conns |-> NoReq]
    /\ pc = [c \in Conns |-> "none"]
    /\ loc = [c \in Conns |-> NoLoc]
    /\ resp = [c \in Conns |-> NoResp]
    /\ reply = [c \in Conns |-> NoResp]
    /\ nreq = 0
    /\ callKey = [c \in Conns |-> <<>>]
    /\ fdMap = [k \in {} |-> NoLoc]
    /\ netns = {}
    /\ attached = {}
    /\ taps = [p \in Pods |-> NoFd]
    /\ dhcp = [p \in Pods |-> "none"]
    /\ relPc = "idle"
    /\ relKey = <<>>
    /\ relPod = "none"
    /\ nrel = 0
    /\ crashed = FALSE
    /\ lastOp = [k \in DecodedKeys |-> [op |-> "none", fd |-> NoFd, pod |-> "none"]]
    /\ UnitIdle

(* ------------------------------ FD registry --------------------------- *)
Put(m, k, v) == [x \in DOMAIN m \cup {k} |-> IF x = k THEN v ELSE m[x]]
Drop(m, k) == [x \in DOMAIN m \ {k} |-> m[x]]

\* addFD without the test for a key that is taken: it always reports success
addFDOk_NoCheck(m, key) == TRUE
\* addFD that reports success and stores nothing
addFD_NoInsert(m, key, fd) == m
\* addFD that stores the descriptor over the one the key already has
addFD_Overwrite(m, key, fd) == Put(m, key, fd)

\* FDServer.addFD: whether the key was free, and the registry afterwards
addFDOk(m, key) == key \notin DOMAIN m
addFD(m, key, fd) == IF key \in DOMAIN m THEN m ELSE Put(m, key, fd)

\* FDServer.removeFD: delete on a map, absent keys included
removeFD(m, key) == Drop(m, key)

\* FDServer.getFD: whether the key is found
getFDFound(m, key) == key \in DOMAIN m

(* ------------------------------ Serve / Stop -------------------------- *)
\* FDServer.Serve: returns "already listening" while stopCh is set, and the
\* error of net.ListenUnix when the socket path is bound or the listen fails
\* otherwise (both leave the server as it was); else it makes stopCh and
\* starts the accept loop. The listener stays in the local l: the field s.l
\* is not assigned.
Serve ==
    /\ ~crashed
    /\ stopCh = "nil"
    /\ ~lOpen
    /\ lOpen' = TRUE
    /\ stopCh' = "open"
    /\ chClosed' = FALSE
    /\ acceptPc' = "accept"
    /\ delay' = 0
    /\ UNCHANGED <<sl, sel, acceptErrs>>
    /\ UNCHANGED <<fds, connVars, srcVars, relVars, crashed, lastOp, unitVars>>

\* FDServer.Stop: close(s.stopCh); s.l.Close(); s.stopCh = nil.
\* Close on the nil *UnixListener returns EINVAL and closes nothing.
Stop ==
    /\ ~crashed
    /\ stopCh # "nil"
    /\ chClosed' = TRUE
    /\ lOpen' = IF sl = "listener" THEN FALSE ELSE lOpen
    /\ stopCh' = "nil"
    /\ UNCHANGED <<sl, acceptPc, sel, delay, acceptErrs>>
    /\ UNCHANGED <<fds, connVars, srcVars, relVars, crashed, lastOp, unitVars>>

\* the delay doubled without the test against maxAcceptErrorDelay
NextDelay_NoCap(d) ==
    IF d = 0 THEN minAcceptErrorDelay ELSE d * 2

\* the delay after one more transient accept failure
NextDelay(d) ==
    LET n == IF d = 0 THEN minAcceptErrorDelay ELSE d * 2
    IN IF n > maxAcceptErrorDelay THEN maxAcceptErrorDelay ELSE n

\* what the accept loop reads from s.stopCh, which it reads without the lock:
\* once Stop has run it may see nil or, stale, the closed channel
StopChRead ==
    IF stopCh # "nil" THEN {"chan"}
    ELSE IF chClosed THEN {"nil", "chan"} ELSE {"nil"}

\* accept loop: AcceptUnix returns a connection; go serveConn(conn)
AcceptConn(c) ==
    /\ ~crashed
    /\ acceptPc = "accept"
    /\ lOpen
    /\ conn[c] = "pending"
    /\ conn' = [conn EXCEPT ![c] = "open"]
    /\ pc' = [pc EXCEPT ![c] = "read"]
    /\ UNCHANGED <<req, loc, resp, reply, nreq, callKey>>
    /\ UNCHANGED <<fds, srvVars, srcVars, relVars, crashed, lastOp, unitVars>>

\* accept loop: a temporary error; the delay grows and the loop selects on
\* the timer and s.stopCh
AcceptTransient ==
    /\ ~crashed
    /\ acceptPc = "accept"
    /\ acceptErrs < MaxAcceptErrs
    /\ acceptErrs' = acceptErrs + 1
    /\ delay' = NextDelay(delay)
    /\ \E r \in StopChRead : sel' = r
    /\ acceptPc' = "backoff"
    /\ UNCHANGED <<stopCh, chClosed, sl, lOpen>>
    /\ UNCHANGED <<fds, connVars, srcVars, relVars, crashed, lastOp, unitVars>>

\* case <-time.After(delay): continue
BackoffTimer ==
    /\ ~crashed
    /\ acceptPc = "backoff"
    /\ acceptPc' = "accept"
    /\ UNCHANGED <<stopCh, chClosed, sl, lOpen, sel, delay, acceptErrs>>
    /\ UNCHANGED <<fds, connVars, srcVars, relVars, crashed, lastOp, unitVars>>

\* case <-s.stopCh: return
BackoffStop ==
    /\ ~crashed
    /\ acceptPc = "backoff"
    /\ sel = "chan"
    /\ chClosed
    /\ acceptPc' = "exited"
    /\ UNCHANGED <<stopCh, chClosed, sl, lOpen, sel, delay, acceptErrs>>
    /\ UNCHANGED <<fds, connVars, srcVars, relVars, crashed, lastOp, unitVars>>

\* accept loop: an error that is not temporary ends the loop, by the return
\* of the stop case or by the break
AcceptPermanent ==
    /\ ~crashed
    /\ acceptPc = "accept"
    /\ acceptPc' = "exited"
    /\ UNCHANGED <<stopCh, chClosed, sl, lOpen, sel, delay, acceptErrs>>
    /\ UNCHANGED <<fds, connVars, srcVars, relVars, crashed, lastOp, unitVars>>

(* ------------------------------- clients ------------------------------ *)
Request(cmd, key, data) ==
    [magic |-> fdMagic, cmd |-> cmd, key |-> fdKey(key), data |-> data]

\* what a client may put on the wire: the three commands as FDClient sends
\* them (ADD of key "a" with every payload, of key "b" with one pod), a header
\* with an undefined command, a header with a wrong magic
Requests ==
    {Request(fdAdd, <<"a">>, d) : d \in Payloads}
    \cup {Request(fdAdd, <<"b">>, "p2")}
    \cup {Request(cmd, k, "none") : cmd \in {fdRelease, fdGet}, k \in Keys}
    \cup {Request(BadCommand, <<"a">>, "none")}
    \cup {[Request(fdGet, <<"a">>, "none") EXCEPT !.magic = BadMagic]}

\* FDClient.Connect: net.DialUnix reaches the listening socket
Connect(c) ==
    /\ ~crashed
    /\ conn[c] = "none"
    /\ lOpen
    /\ conn' = [conn EXCEPT ![c] = "pending"]
    /\ UNCHANGED <<req, pc, loc, resp, reply, nreq, callKey>>
    /\ UNCHANGED <<fds, srvVars, srcVars, relVars, crashed, lastOp, unitVars>>

\* FDClient.request: the header and payload are written, then the client
\* waits for the response (the previous one has been returned to the caller)
Send(c, r) ==
    /\ ~crashed
    /\ conn[c] = "open"
    /\ pc[c] = "read"
    /\ req[c] = NoReq
    /\ nreq < MaxReqs
    /\ req' = [req EXCEPT ![c] = r]
    /\ reply' = [reply EXCEPT ![c] = NoResp]
    /\ nreq' = nreq + 1
    /\ callKey' = [callKey EXCEPT ![c] = <<>>]
    /\ UNCHANGED <<conn, pc, loc, resp>>
    /\ UNCHANGED <<fds, srvVars, srcVars, relVars, crashed, lastOp, unitVars>>

\* FDClient.AddFD, the sending half: the key is copied into the header's
\* field by fdKey and the request goes out as in Send
AddFD(c, key, data) ==
    /\ ~crashed
    /\ conn[c] = "open"
    /\ pc[c] = "read"
    /\ req[c] = NoReq
    /\ nreq < MaxReqs
    /\ req' = [req EXCEPT ![c] = Request(fdAdd, key, data)]
    /\ reply' = [reply EXCEPT ![c] = NoResp]
    /\ nreq' = nreq + 1
    /\ callKey' = [callKey EXCEPT ![c] = <<key>>]
    /\ UNCHANGED <<conn, pc, loc, resp>>
    /\ UNCHANGED <<fds, srvVars, srcVars, relVars, crashed, lastOp, unitVars>>

\* FDClient.AddFD, the receiving half, for the response rep the client read:
\* request fails on an ERROR response and on a command that is not
\* ADD_RESPONSE; AddFD fails when the response's key, trimmed, is not the key
\* the caller passed
AddFDResult(key, rep) ==
    IF rep.cmd = fdError THEN "server returned error"
    ELSE IF rep.cmd # fdAdd + fdResponse THEN "unexpected command"
    ELSE IF GetKey(rep.key) # key THEN "fd key mismatch"
    ELSE "ok"

(* ------------------------- connection handler ------------------------- *)
ErrorResp(msg) ==
    [cmd |-> fdError, key |-> <<>>, data |-> <<"err", msg>>, fd |-> NoFd]

\* serveConn without the magic test
MagicOk_NoCheck(hdr) == TRUE

\* serveConn: the magic test on the header just read
MagicOk(hdr) == hdr.magic = fdMagic

\* serveConn: binary.Read returns io.EOF once the peer has closed; the loop
\* ends and the deferred c.Close() runs
PeerClose(c) ==
    /\ ~crashed
    /\ conn[c] = "open"
    /\ pc[c] = "read"
    /\ req[c] = NoReq
    /\ conn' = [conn EXCEPT ![c] = "eof"]
    /\ pc' = [pc EXCEPT ![c] = "done"]
    /\ UNCHANGED <<req, loc, resp, reply, nreq, callKey>>
    /\ UNCHANGED <<fds, srvVars, srcVars, relVars, crashed, lastOp, unitVars>>

\* serveConn: a header is read; a wrong magic returns "bad magic" (and the
\* deferred c.Close() runs), otherwise the command selects the handler and an
\* undefined command becomes the error "bad command"
ReadHeader(c) ==
    /\ ~crashed
    /\ conn[c] = "open"
    /\ pc[c] = "read"
    /\ req[c] # NoReq
    /\ IF ~MagicOk(req[c])
       THEN /\ conn' = [conn EXCEPT ![c] = "bad magic"]
            /\ pc' = [pc EXCEPT ![c] = "done"]
            /\ UNCHANGED resp
       ELSE /\ UNCHANGED conn
            /\ pc' = [pc EXCEPT ![c] =
                        CASE req[c].cmd = fdAdd -> "add"
                          [] req[c].cmd = fdRelease -> "release"
                          [] req[c].cmd = fdGet -> "get"
                          [] OTHER -> "write"]
            /\ resp' = [resp EXCEPT ![c] =
                        IF req[c].cmd \in {fdAdd, fdRelease, fdGet}
                        THEN NoResp ELSE ErrorResp("bad command")]
    /\ UNCHANGED <<req, loc, reply, nreq, callKey>>
    /\ UNCHANGED <<fds, srvVars, srcVars, relVars, crashed, lastOp, unitVars>>

(* ---------------------------- tap FD source --------------------------- *)
\* the lowest descriptor number no open tap file uses
OpenFds == {taps[p] : p \in Pods} \ {NoFd}
FreshFd == CHOOSE f \in FdNums \ OpenFds : \A g \in FdNums \ OpenFds : f <= g

\* json.Marshal(netConfig) and csn.HardwareAddr of a pod's network; p2 stands
\* for a network whose HardwareAddr is empty
NetConfig(p) == <<"cfg", p>>
HardwareAddr(p) == IF p = "p2" THEN <<>> ELSE <<"mac", p>>

\* the steps of TapFDSource.GetFD that can fail, in order
GetFDFailures == {"netns", "cni", "getns", "setup", "listener", "marshal"}

\* TapFDSource.GetFD up to json.Marshal: what exists after it ran with the
\* step `fail` failing ("none": no step failed). No step undoes an earlier one.
NetnsAfterGetFD(p, fail) ==
    IF fail = "netns" THEN netns ELSE netns \cup {p}
AttachedAfterGetFD(p, fail) ==
    IF fail \in {"netns", "cni"} THEN attached ELSE attached \cup {p}
TapsAfterGetFD(p, fail) ==
    IF fail \in {"netns", "cni", "getns", "setup"} THEN taps
    ELSE [taps EXCEPT ![p] = FreshFd]
DhcpAfterGetFD(p, fail) ==
    IF fail \in {"marshal", "none"} THEN [dhcp EXCEPT ![p] = "serving"] ELSE dhcp

\* serveAdd: the payload is read and source.GetFD(key, data) is called, before
\* any look at the registry. GetFD: json.Unmarshal rejects a malformed
\* payload; cni.CreateNetNS fails when the pod's netns exists; any later step
\* may fail. An error becomes "error getting fd".
ServeAddGetFD(c) ==
    /\ ~crashed
    /\ pc[c] = "add"
    /\ IF req[c].data = Malformed
       THEN /\ resp' = [resp EXCEPT ![c] = ErrorResp("error getting fd")]
            /\ pc' = [pc EXCEPT ![c] = "write"]
            /\ UNCHANGED <<loc, netns, attached, taps, dhcp>>
       ELSE \E fail \in GetFDFailures \cup {"none"} :
            LET p == req[c].data IN
            /\ p \in netns => fail = "netns"
            /\ fail \notin {"netns", "cni", "getns", "setup"} => FdNums \ OpenFds # {}
            /\ netns' = NetnsAfterGetFD(p, fail)
            /\ attached' = AttachedAfterGetFD(p, fail)
            /\ taps' = TapsAfterGetFD(p, fail)
            /\ dhcp' = DhcpAfterGetFD(p, fail)
            /\ IF fail = "none"
               THEN /\ loc' = [loc EXCEPT ![c] = [pod |-> p, fd |-> FreshFd]]
                    /\ pc' = [pc EXCEPT ![c] = "record"]
                    /\ UNCHANGED resp
               ELSE /\ resp' = [resp EXCEPT ![c] = ErrorResp("error getting fd")]
                    /\ pc' = [pc EXCEPT ![c] = "write"]
                    /\ UNCHANGED loc
    /\ UNCHANGED <<conn, req, reply, nreq, callKey, fdMap>>
    /\ UNCHANGED <<fds, srvVars, relVars, crashed, lastOp, unitVars>>

\* TapFDSource.GetFD, its end: s.fdMap[key] = &podNetwork{...}, whatever the
\* table held under the key, and the tap descriptor is returned
GetFDRecord(c) ==
    /\ ~crashed
    /\ pc[c] = "record"
    /\ fdMap' = Put(fdMap, GetKey(req[c].key), loc[c])
    /\ pc' = [pc EXCEPT ![c] = "addfd"]
    /\ UNCHANGED <<conn, req, loc, resp, reply, nreq, callKey, netns, attached, taps, dhcp>>
    /\ UNCHANGED <<fds, srvVars, relVars, crashed, lastOp, unitVars>>

\* serveAdd: s.addFD(key, fd); a key that is taken is "fd key already exists"
ServeAddRegister(c) ==
    LET key == GetKey(req[c].key) IN
    /\ ~crashed
    /\ pc[c] = "addfd"
    /\ fds' = addFD(fds, key, loc[c].fd)
    /\ IF addFDOk(fds, key)
       THEN /\ resp' = [resp EXCEPT ![c] =
                  [cmd |-> fdAddResponse, key |-> req[c].key,
                   data |-> NetConfig(loc[c].pod), fd |-> NoFd]]
            /\ lastOp' = [lastOp EXCEPT ![key] =
                  [op |-> "added", fd |-> loc[c].fd, pod |-> loc[c].pod]]
       ELSE /\ resp' = [resp EXCEPT ![c] = ErrorResp("fd key already exists")]
            /\ UNCHANGED lastOp
    /\ pc' = [pc EXCEPT ![c] = "write"]
    /\ UNCHANGED <<conn, req, loc, reply, nreq, callKey>>
    /\ UNCHANGED <<srvVars, srcVars, relVars, crashed, unitVars>>

\* serveRelease: s.removeFD(key) and a RELEASE_RESPONSE, whatever the registry
\* held; the source is not called
ServeRelease(c) ==
    LET key == GetKey(req[c].key) IN
    /\ ~crashed
    /\ pc[c] = "release"
    /\ fds' = removeFD(fds, key)
    /\ resp' = [resp EXCEPT ![c] =
          [cmd |-> fdReleaseResponse, key |-> req[c].key, data |-> <<>>, fd |-> NoFd]]
    /\ lastOp' = [lastOp EXCEPT ![key].op = "released"]
    /\ pc' = [pc EXCEPT ![c] = "write"]
    /\ UNCHANGED <<conn, req, loc, reply, nreq, callKey>>
    /\ UNCHANGED <<srvVars, srcVars, relVars, crashed, unitVars>>

\* serveGet: s.getFD(key); a key that is not found is "bad fd key"
ServeGetLookup(c) ==
    LET key == GetKey(req[c].key) IN
    /\ ~crashed
    /\ pc[c] = "get"
    /\ IF getFDFound(fds, key)
       THEN /\ loc' = [loc EXCEPT ![c] = [pod |-> "none", fd |-> fds[key]]]
            /\ pc' = [pc EXCEPT ![c] = "info"]
            /\ UNCHANGED resp
       ELSE /\ resp' = [resp EXCEPT ![c] = ErrorResp("bad fd key")]
            /\ pc' = [pc EXCEPT ![c] = "write"]
            /\ UNCHANGED loc
    /\ UNCHANGED <<conn, req, reply, nreq, callKey>>
    /\ UNCHANGED <<fds, srvVars, srcVars, relVars, crashed, lastOp, unitVars>>

\* serveGet: s.source.GetInfo(key), the hardware address of the entry the
\* table holds, or "can't get key info"; the rights carry the registry's fd
ServeGetInfo(c) ==
    LET key == GetKey(req[c].key) IN
    /\ ~crashed
    /\ pc[c] = "info"
    /\ resp' = [resp EXCEPT ![c] =
          IF key \in DOMAIN fdMap
          THEN [cmd |-> fdGetResponse, key |-> req[c].key,
                data |-> HardwareAddr(fdMap[key].pod), fd |-> loc[c].fd]
          ELSE ErrorResp("can't get key info")]
    /\ pc' = [pc EXCEPT ![c] = "write"]
    /\ UNCHANGED <<conn, req, loc, reply, nreq, callKey>>
    /\ UNCHANGED <<fds, srvVars, srcVars, relVars, crashed, lastOp, unitVars>>

\* len(syscall.UnixRights(fd)) for a response with a descriptor, in units of
\* one control message; 0 for oobData nil
OobLen(r) == IF r.fd = NoFd THEN 0 ELSE 1

\* serveConn that writes the message only when there is payload
ServerWrite_DataOnly(r) ==
    <<[kind |-> "hdr", magic |-> fdMagic, cmd |-> r.cmd, key |-> r.key,
       dataSize |-> Len(r.data), oobSize |-> OobLen(r)]>>
    \o (IF Len(r.data) > 0
        THEN <<[kind |-> "msg", data |-> r.data, n |-> Len(r.data),
                fd |-> r.fd, oobn |-> OobLen(r)]>>
        ELSE <<>>)

\* serveConn: what is written for a response: binary.Write of the header,
\* whose DataSize and OobSize the handlers set to len(data) and len(oobData),
\* then, if either is not empty, one WriteMsgUnix; with no payload the socket
\* layer sends one dummy byte along with the rights
ServerWrite(r) ==
    <<[kind |-> "hdr", magic |-> fdMagic, cmd |-> r.cmd, key |-> r.key,
       dataSize |-> Len(r.data), oobSize |-> OobLen(r)]>>
    \o (IF Len(r.data) > 0 \/ OobLen(r) > 0
        THEN <<[kind |-> "msg", data |-> r.data,
                n |-> IF Len(r.data) = 0 THEN 1 ELSE Len(r.data),
                fd |-> r.fd, oobn |-> OobLen(r)]>>
        ELSE <<>>)

\* FDClient.request, the reading half: the header, then ReadMsgUnix if
\* DataSize or OobSize is not 0, with the two size tests; ok is FALSE when the
\* read fails or finds no message, rest is what is left unread
ClientRead(w) ==
    LET h == w[1] IN
    IF h.dataSize > 0 \/ h.oobSize > 0
    THEN IF Len(w) >= 2 /\ w[2].kind = "msg"
         THEN [ok |-> /\ h.magic = fdMagic
                      /\ ~(w[2].n # h.dataSize /\ (h.dataSize # 0 \/ w[2].n # 1))
                      /\ w[2].oobn = h.oobSize,
               resp |-> [cmd |-> h.cmd, key |-> h.key, data |-> w[2].data,
                         fd |-> w[2].fd],
               rest |-> SubSeq(w, 3, Len(w))]
         ELSE [ok |-> FALSE, resp |-> NoResp, rest |-> Tail(w)]
    ELSE [ok |-> h.magic = fdMagic,
          resp |-> [cmd |-> h.cmd, key |-> h.key, data |-> <<>>, fd |-> NoFd],
          rest |-> Tail(w)]

\* what the client has after the server wrote the response r
ClientError == [cmd |-> 0, key |-> <<>>, data |-> <<"client error">>, fd |-> NoFd]
Received(r) ==
    LET p == ClientRead(ServerWrite(r))
    IN IF p.ok /\ p.rest = <<>> THEN p.resp ELSE ClientError

\* the request bytes the handler has not read when it goes back to reading a
\* header: serveAdd alone reads the DataSize payload bytes (io.ReadFull);
\* serveRelease, serveGet and the default branch read nothing, so a payload
\* sent with them is what binary.Read takes for the next header, and its
\* first bytes (JSON text) are not the magic
PayloadAsHeader(d) ==
    [magic |-> BadMagic, cmd |-> BadCommand, key |-> fdKey(<<>>), data |-> d]
Unread(r) ==
    IF r.cmd = fdAdd \/ r.data = "none" THEN NoReq ELSE PayloadAsHeader(r.data)

\* serveConn: the response header and, when there is payload or rights, the
\* message are written; the loop goes back to reading a header
WriteResponse(c) ==
    LET key == GetKey(req[c].key) IN
    /\ ~crashed
    /\ pc[c] = "write"
    /\ reply' = [reply EXCEPT ![c] = Received(resp[c])]
    /\ resp' = [resp EXCEPT ![c] = NoResp]
    /\ req' = [req EXCEPT ![c] = Unread(req[c])]
    /\ loc' = [loc EXCEPT ![c] = NoLoc]
    /\ pc' = [pc EXCEPT ![c] = "read"]
    /\ lastOp' = IF resp[c].cmd = fdAddResponse /\ lastOp[key].op = "added"
                 THEN [lastOp EXCEPT ![key].op = "acked"] ELSE lastOp
    /\ UNCHANGED <<conn, nreq, callKey>>
    /\ UNCHANGED <<fds, srvVars, srcVars, relVars, crashed, unitVars>>

(* ------------------- TapFDSource.Release (pod controller) -------------- *)
\* dhcp.Server.Close (pkg/dhcp), as section 4.F describes it: close stops
\* serve asynchronously. A serving loop returns and its task offers the one
\* result on doneCh; a loop that has returned has nothing more to offer.
DhcpAfterClose(d) == IF d = "serving" THEN "sending" ELSE d

\* Release, first part: the table lookup ("bad fd key" when the key is not
\* recorded), ns.GetNS (fails when the netns is gone, or otherwise) and
\* dhcpServer.Close(), after which the serve loop returns and its task offers
\* the result on doneCh. Then the call waits on doneCh. A call that returns an
\* error from these steps changes nothing.
ReleaseStart(k) ==
    /\ ~crashed
    /\ relPc = "idle"
    /\ nrel < MaxReleases
    /\ IF k \notin DOMAIN fdMap
       THEN UNCHANGED <<relPc, relKey, relPod, nrel, dhcp>>
       ELSE \E fail \in {"getns", "close", "none"} :
            LET p == fdMap[k].pod IN
            /\ p \notin netns => fail = "getns"
            /\ IF fail = "none"
               THEN /\ dhcp' = [dhcp EXCEPT ![p] = DhcpAfterClose(@)]
                    /\ relPc' = "wait"
                    /\ relKey' = k
                    /\ relPod' = p
                    /\ nrel' = nrel + 1
               ELSE UNCHANGED <<relPc, relKey, relPod, nrel, dhcp>>
    /\ UNCHANGED <<fdMap, netns, attached, taps>>
    /\ UNCHANGED <<fds, srvVars, connVars, crashed, lastOp, unitVars>>

\* ContainerSideNetwork.Teardown (pkg/nettools), as section 4.E describes it:
\* the steps of the setup are reversed, the first being the close of the tap
\* descriptor
TeardownTaps(t, p) == [t EXCEPT ![p] = NoFd]

\* Release that goes on to delete the entry whatever the teardown returned
AfterTeardown_Always(fail) == "delete"

\* Release after the teardown steps: any error is returned at once; only when
\* none failed does the call reach delete(s.fdMap, key)
AfterTeardown(fail) == IF fail = "none" THEN "delete" ELSE "idle"

\* Release, second part: <-pn.doneCh receives the serve task's result, then
\* csn.Teardown (closes the tap file), RemoveSandboxFromNetwork and
\* DestroyNetNS, each returning at its failure
ReleaseTeardown ==
    /\ ~crashed
    /\ relPc = "wait"
    /\ dhcp[relPod] = "sending"
    /\ \E fail \in {"teardown", "remove", "destroy", "none"} :
       /\ dhcp' = [dhcp EXCEPT ![relPod] = "delivered"]
       /\ taps' = IF fail = "teardown" THEN taps ELSE TeardownTaps(taps, relPod)
       /\ attached' = IF fail \in {"teardown", "remove"} THEN attached
                      ELSE attached \ {relPod}
       /\ netns' = IF fail = "none" THEN netns \ {relPod} ELSE netns
       /\ relPc' = AfterTeardown(fail)
       /\ IF relPc' = "delete"
          THEN UNCHANGED <<relKey, relPod>>
          ELSE /\ relKey' = <<>>
               /\ relPod' = "none"
    /\ UNCHANGED <<fdMap, nrel>>
    /\ UNCHANGED <<fds, srvVars, connVars, crashed, lastOp, unitVars>>

\* Release, its end: delete(s.fdMap, key)
ReleaseDelete ==
    /\ ~crashed
    /\ relPc = "delete"
    /\ fdMap' = Drop(fdMap, relKey)
    /\ relPc' = "idle"
    /\ relKey' = <<>>
    /\ relPod' = "none"
    /\ UNCHANGED <<netns, attached, taps, dhcp, nrel>>
    /\ UNCHANGED <<fds, srvVars, connVars, crashed, lastOp, unitVars>>

(* ----------------------- unsynchronised fdMap access ------------------- *)
\* threads about to write s.fdMap and handlers about to read it: the table is
\* a plain map and neither GetFD, GetInfo nor Release takes a lock
MapWriters == {c \in Conns : pc[c] = "record"} \cup (IF relPc = "delete" THEN {"ctl"} ELSE {})
MapReaders == {c \in Conns : pc[c] = "info"}
MapRacePossible ==
    \/ Cardinality(MapWriters) >= 2
    \/ MapWriters # {} /\ MapReaders # {}

\* the Go runtime may detect the concurrent map access and abort the process
\* (fatal error: concurrent map writes / concurrent map read and map write)
MapRace ==
    /\ ~crashed
    /\ MapRacePossible
    /\ crashed' = TRUE
    /\ UNCHANGED <<fds, srvVars, connVars, srcVars, relVars, lastOp, unitVars>>

(* ---------------------------- specifications -------------------------- *)
\* what the connection handlers, the source and the pod controller do
HandlerNext ==
    \/ \E c \in Conns : ReadHeader(c)
    \/ \E c \in Conns : ServeAddGetFD(c)
    \/ \E c \in Conns : GetFDRecord(c)
    \/ \E c \in Conns : ServeAddRegister(c)
    \/ \E c \in Conns : ServeRelease(c)
    \/ \E c \in Conns : ServeGetLookup(c)
    \/ \E c \in Conns : ServeGetInfo(c)
    \/ \E c \in Conns : WriteResponse(c)
    \/ MapRace

\* The server is started and serves its connections; clients connect, send
\* any request and close; the pod controller calls the source's Release.
\* Stop and the accept loop's failures, which touch none of the state the
\* handlers read, are left to ServeSpec.
Next ==
    \/ Serve
    \/ \E c \in Conns : AcceptConn(c)
    \/ \E c \in Conns : Connect(c)
    \/ \E c \in Conns, r \in Requests : Send(c, r)
    \/ \E c \in Conns : PeerClose(c)
    \/ HandlerNext
    \/ \E k \in DecodedKeys : ReleaseStart(k)
    \/ ReleaseTeardown
    \/ ReleaseDelete

Spec == Init /\ [][Next]_vars

\* The server's life: Serve, Stop, the accept loop with its failures and
\* backoff, and connections whose clients send RELEASE, with or without
\* payload bytes (FDClient.request writes whatever data it is given), or a
\* wrong magic.
ProbeRequests ==
    {Request(fdRelease, <<"a">>, "none"),
     Request(fdRelease, <<"a">>, "p1"),
     [Request(fdGet, <<"a">>, "none") EXCEPT !.magic = BadMagic]}

ServeNext ==
    \/ Serve
    \/ Stop
    \/ AcceptTransient
    \/ BackoffTimer
    \/ BackoffStop
    \/ AcceptPermanent
    \/ \E c \in Conns : AcceptConn(c)
    \/ \E c \in Conns : Connect(c)
    \/ \E c \in Conns, r \in ProbeRequests : Send(c, r)
    \/ \E c \in Conns : PeerClose(c)
    \/ \E c \in Conns : ReadHeader(c)
    \/ \E c \in Conns : ServeRelease(c)
    \/ \E c \in Conns : WriteResponse(c)

ServeSpec == Init /\ [][ServeNext]_vars

\* Callers of FDClient.AddFD: on a started server, connected clients call
\* AddFD with any of the client keys and any payload.
KeyNext ==
    \/ Serve
    \/ \E c \in Conns : AcceptConn(c)
    \/ \E c \in Conns : Connect(c)
    \/ \E c \in Conns, k \in ClientKeys, d \in Payloads : AddFD(c, k, d)
    \/ \E c \in Conns : ReadHeader(c)
    \/ \E c \in Conns : ServeAddGetFD(c)
    \/ \E c \in Conns : GetFDRecord(c)
    \/ \E c \in Conns : ServeAddRegister(c)
    \/ \E c \in Conns : WriteResponse(c)
    \/ MapRace

KeySpec == Init /\ [][KeyNext]_vars

\* Two clients, connected and accepted, have each written an ADD for the same
\* free key, with any two payloads; the handlers run in any interleaving.
RaceKey == <<"a">>

RaceInit ==
    \E d1 \in Payloads, d2 \in Payloads :
    /\ fds = [k \in {} |-> NoFd]
    /\ stopCh = "open"
    /\ chClosed = FALSE
    /\ sl = "nil"
    /\ lOpen = TRUE
    /\ acceptPc = "accept"
    /\ sel = "nil"
    /\ delay = 0
    /\ acceptErrs = 0
    /\ conn = [c \in Conns |-> "open"]
    /\ req = [c \in Conns |-> Request(fdAdd, RaceKey, IF c = "c1" THEN d1 ELSE d2)]
    /\ pc = [c \in Conns |-> "read"]
    /\ loc = [c \in Conns |-> NoLoc]
    /\ resp = [c \in Conns |-> NoResp]
    /\ reply = [c \in Conns |-> NoResp]
    /\ nreq = Cardinality(Conns)
    /\ callKey = [c \in Conns |-> <<>>]
    /\ fdMap = [k \in {} |-> NoLoc]
    /\ netns = {}
    /\ attached = {}
    /\ taps = [p \in Pods |-> NoFd]
    /\ dhcp = [p \in Pods |-> "none"]
    /\ relPc = "idle"
    /\ relKey = <<>>
    /\ relPod = "none"
    /\ nrel = 0
    /\ crashed = FALSE
    /\ lastOp = [k \in DecodedKeys |-> [op |-> "none", fd |-> NoFd, pod |-> "none"]]
    /\ UnitIdle

RaceNext ==
    \/ \E c \in Conns : ReadHeader(c)
    \/ \E c \in Conns : ServeAddGetFD(c)
    \/ \E c \in Conns : GetFDRecord(c)
    \/ \E c \in Conns : ServeAddRegister(c)
    \/ \E c \in Conns : WriteResponse(c)
    \/ MapRace

RaceSpec == RaceInit /\ [][RaceNext]_vars

(* ------------------ TapFDSource.GetFD: the network result -------------- *)
\* cnitypes.DNS: Nameservers, Domain, Search, Options
DNSFields == {"nameservers", "domain", "search", "options"}
\* the zero value of a field: the empty string for Domain, no entries else
EmptyField(f) == IF f = "domain" THEN "" ELSE <<>>
\* DNS blocks whose fields are empty or hold the given entry
DNSBlocks(e) ==
    [nameservers : {<<>>, <<e>>}, domain : {"", e}, search : {<<>>, <<e>>},
     options : {<<>>, <<e>>}]
\* what a pod descriptor may carry and what the provisioner may return
PodDNSBlocks == DNSBlocks("pod")
ResultDNSBlocks == DNSBlocks("cni")

\* GetFD: if pnd.DNS != nil, Nameservers, Search and Options are assigned
\* from it
OverrideDNS(r, d) ==
    IF d = <<>> THEN r
    ELSE [r EXCEPT !.dns = [@ EXCEPT !.nameservers = d[1].nameservers,
                                      !.search = d[1].search,
                                      !.options = d[1].options]]

\* json.Marshal of a DNS block: every field is tagged omitempty
MarshalDNS(dns) ==
    [f \in {g \in DNSFields : dns[g] # EmptyField(g)} |-> dns[f]]
\* json.Marshal(netConfig)
MarshalResult(r) == [dns |-> MarshalDNS(r.dns), rest |-> r.rest]
\* decoding the bytes: a field that is absent has its zero value
UnmarshalDNS(j) ==
    [f \in DNSFields |-> IF f \in DOMAIN j THEN j[f] ELSE EmptyField(f)]
UnmarshalResult(b) == [dns |-> UnmarshalDNS(b.dns), rest |-> b.rest]

\* a call of GetFD with any descriptor DNS and any provisioner result
DnsInit ==
    /\ fds = [k \in {} |-> NoFd]
    /\ stopCh = "nil"
    /\ chClosed = FALSE
    /\ sl = "nil"
    /\ lOpen = FALSE
    /\ acceptPc = "none"
    /\ sel = "nil"
    /\ delay = 0
    /\ acceptErrs = 0
    /\ conn = [c \in Conns |-> "none"]
    /\ req = [c \in Conns |-> NoReq]
    /\ pc = [c \in Conns |-> "none"]
    /\ loc = [c \in Conns |-> NoLoc]
    /\ resp = [c \in Conns |-> NoResp]
    /\ reply = [c \in Conns |-> NoResp]
    /\ nreq = 0
    /\ callKey = [c \in Conns |-> <<>>]
    /\ fdMap = [k \in {} |-> NoLoc]
    /\ netns = {}
    /\ attached = {}
    /\ taps = [p \in Pods |-> NoFd]
    /\ dhcp = [p \in Pods |-> "none"]
    /\ relPc = "idle"
    /\ relKey = <<>>
    /\ relPod = "none"
    /\ nrel = 0
    /\ crashed = FALSE
    /\ lastOp = [k \in DecodedKeys |-> [op |-> "none", fd |-> NoFd, pod |-> "none"]]
    /\ pndDNS \in {<<>>} \cup {<<b>> : b \in PodDNSBlocks}
    /\ cniResult \in [dns : ResultDNSBlocks, rest : {"ips-routes"}]
    /\ respData = <<>>
    /\ fake = NoFake
    /\ fakeHist = NoHist

\* GetFD from the provisioner's result to the bytes it returns: the DNS
\* override, then json.Marshal
GetFDResult ==
    /\ respData = <<>>
    /\ respData' = <<MarshalResult(OverrideDNS(cniResult, pndDNS))>>
    /\ UNCHANGED <<pndDNS, cniResult, fake, fakeHist>>
    /\ UNCHANGED <<fds, srvVars, connVars, srcVars, relVars, crashed, lastOp>>

DnsNext == GetFDResult

DnsSpec == DnsInit /\ [][DnsNext]_vars

(* ----------------------------- FakeCNIClient --------------------------- *)
\* the (podId, podName, podNS) triples a client is made for and called with
PodTriples == {<<id, name, ns>> : id \in {"p1", "p2"}, name \in {"n1", "n2"},
                                  ns \in {"ns1", "ns2"}}

\* NewFakeCNIClient
NewFakeCNIClient(t) ==
    [podId |-> t[1], podName |-> t[2], podNS |-> t[3],
     added |-> FALSE, removed |-> FALSE]

\* verifyPod: whether the three comparisons pass (log.Panicf otherwise)
verifyPod(f, t) == t[1] = f.podId /\ t[2] = f.podName /\ t[3] = f.podNS

\* AddSandboxToNetwork with only the pod check before the work
AddPanics_NoAddedCheck(f, t) == ~verifyPod(f, t)

\* AddSandboxToNetwork: the calls that panic
AddPanics(f, t) == ~verifyPod(f, t) \/ f.added

\* RemoveSandboxFromNetwork: the calls that panic before the capture
RemovePanics(f, t) == ~verifyPod(f, t) \/ ~f.added \/ f.removed

\* one client, made for any triple; no call yet
FakeInit ==
    /\ fds = [k \in {} |-> NoFd]
    /\ stopCh = "nil"
    /\ chClosed = FALSE
    /\ sl = "nil"
    /\ lOpen = FALSE
    /\ acceptPc = "none"
    /\ sel = "nil"
    /\ delay = 0
    /\ acceptErrs = 0
    /\ conn = [c \in Conns |-> "none"]
    /\ req = [c \in Conns |-> NoReq]
    /\ pc = [c \in Conns |-> "none"]
    /\ loc = [c \in Conns |-> NoLoc]
    /\ resp = [c \in Conns |-> NoResp]
    /\ reply = [c \in Conns |-> NoResp]
    /\ nreq = 0
    /\ callKey = [c \in Conns |-> <<>>]
    /\ fdMap = [k \in {} |-> NoLoc]
    /\ netns = {}
    /\ attached = {}
    /\ taps = [p \in Pods |-> NoFd]
    /\ dhcp = [p \in Pods |-> "none"]
    /\ relPc = "idle"
    /\ relKey = <<>>
    /\ relPod = "none"
    /\ nrel = 0
    /\ crashed = FALSE
    /\ lastOp = [k \in DecodedKeys |-> [op |-> "none", fd |-> NoFd, pod |-> "none"]]
    /\ pndDNS = <<>>
    /\ cniResult = NoResult
    /\ respData = <<>>
    /\ fake \in {NewFakeCNIClient(t) : t \in PodTriples}
    /\ fakeHist = NoHist

\* the history after one more call
Called(op, t, panics, ok) ==
    [calls |-> fakeHist.calls + 1,
     addCalled |-> fakeHist.addCalled \/ op = "add",
     removeCalled |-> fakeHist.removeCalled \/ op = "remove",
     addOk |-> fakeHist.addOk + (IF op = "add" /\ ok THEN 1 ELSE 0),
     removeOk |-> fakeHist.removeOk + (IF op = "remove" /\ ok THEN 1 ELSE 0),
     panicked |-> panics, last |-> op, lastPod |-> t]

\* AddSandboxToNetwork: panics on a wrong pod or when c.added is set;
\* otherwise it returns an error from the work on an interface (GetNS, the
\* veth pair, the link), leaving c.added as it was, or sets c.added. A panic
\* ends the test process.
AddSandboxToNetwork(t) ==
    /\ ~fakeHist.panicked
    /\ fakeHist.calls < MaxFakeCalls
    /\ IF AddPanics(fake, t)
       THEN /\ fakeHist' = Called("add", t, TRUE, FALSE)
            /\ UNCHANGED fake
       ELSE \E ok \in BOOLEAN :
            /\ fakeHist' = Called("add", t, FALSE, ok)
            /\ fake' = [fake EXCEPT !.added = ok]
    /\ UNCHANGED <<pndDNS, cniResult, respData>>
    /\ UNCHANGED <<fds, srvVars, connVars, srcVars, relVars, crashed, lastOp>>

\* RemoveSandboxFromNetwork: panics on a wrong pod, when c.added is not set or
\* c.removed is; captureNetworkConfigAfterTeardown may panic too; otherwise it
\* sets c.removed and returns nil
RemoveSandboxFromNetwork(t) ==
    /\ ~fakeHist.panicked
    /\ fakeHist.calls < MaxFakeCalls
    /\ IF RemovePanics(fake, t)
       THEN /\ fakeHist' = Called("remove", t, TRUE, FALSE)
            /\ UNCHANGED fake
       ELSE \E ok \in BOOLEAN :
            /\ fakeHist' = Called("remove", t, ~ok, ok)
            /\ fake' = [fake EXCEPT !.removed = ok]
    /\ UNCHANGED <<pndDNS, cniResult, respData>>
    /\ UNCHANGED <<fds, srvVars, connVars, srcVars, relVars, crashed, lastOp>>

FakeNext ==
    \/ \E t \in PodTriples : AddSandboxToNetwork(t)
    \/ \E t \in PodTriples : RemoveSandboxFromNetwork(t)

FakeSpec == FakeInit /\ [][FakeNext]_vars

(* ------------------------------- claims ------------------------------- *)
\* the key a handler decoded from the header it is serving
KeyOf(c) == GetKey(req[c].key)

\* C1: while a key is in the registry, every ADD for it ends in the error
\* "fd key already exists" and leaves the registry's descriptor for the key
\* as it was.
C1_LaterAddIsDuplicateError ==
    [][\A c \in Conns :
        (pc[c] \in {"add", "addfd"} /\ pc'[c] = "write" /\ KeyOf(c) \in DOMAIN fds)
        => /\ resp'[c] = ErrorResp("fd key already exists")
           /\ KeyOf(c) \in DOMAIN fds'
           /\ fds'[KeyOf(c)] = fds[KeyOf(c)]]_vars

\* both racing ADDs have been answered
RaceDone == \A c \in Conns : pc[c] = "read" /\ req[c] = NoReq /\ reply[c] # NoResp
AddSucceeded == {c \in Conns : reply[c].cmd = fdAddResponse}

\* C2: two concurrent ADDs for one free key end with exactly one ADD_RESPONSE
\* and, for the other, the duplicate-key error.
C2_ExactlyOneAddOneDuplicate ==
    RaceDone =>
        \E c \in Conns :
            /\ reply[c].cmd = fdAddResponse
            /\ \A d \in Conns \ {c} : reply[d] = ErrorResp("fd key already exists")

\* C2, amended: of two concurrent ADDs for one free key at most one gets
\* ADD_RESPONSE; an ADD whose source call fails gets "error getting fd"; once
\* both are answered, unless the source call failed for both, exactly one got
\* ADD_RESPONSE, and the other, if its source call succeeded, the duplicate-key
\* error.
C2_AtMostOneAddSucceeds ==
    /\ Cardinality(AddSucceeded) <= 1
    /\ \A c \in Conns :
         reply[c] # NoResp =>
            \/ reply[c] = [cmd |-> fdAddResponse, key |-> fdKey(RaceKey),
                           data |-> NetConfig(lastOp[RaceKey].pod), fd |-> NoFd]
            \/ reply[c] = ErrorResp("fd key already exists")
            \/ reply[c] = ErrorResp("error getting fd")
    /\ (RaceDone /\ \E c \in Conns : reply[c] # ErrorResp("error getting fd"))
         => Cardinality(AddSucceeded) = 1

\* C2 witness: both ADDs reached the registry; one got ADD_RESPONSE, the other
\* the duplicate-key error.
C2_Witness ==
    /\ RaceDone
    /\ \E c \in Conns :
         /\ reply[c].cmd = fdAddResponse
         /\ \A d \in Conns \ {c} : reply[d] = ErrorResp("fd key already exists")

\* C3: when the last registry operation on a key is a successful ADD (no
\* RELEASE since), a GET for it finds the key, reads the descriptor of that
\* ADD and is answered with GET_RESPONSE carrying that descriptor as rights and
\* the source's info for the key as payload.
C3_GetReturnsAddedFd ==
    [][\A c \in Conns :
        /\ (pc[c] = "get" /\ pc'[c] # "get" /\ lastOp[KeyOf(c)].op \in {"added", "acked"})
           => pc'[c] = "info" /\ loc'[c].fd = lastOp[KeyOf(c)].fd
        /\ (pc[c] = "info" /\ pc'[c] # "info" /\ lastOp[KeyOf(c)].op \in {"added", "acked"})
           => /\ resp'[c].cmd = fdGetResponse
              /\ resp'[c].fd = loc[c].fd
              /\ resp'[c].key = req[c].key
              /\ KeyOf(c) \in DOMAIN fdMap
              /\ resp'[c].data = HardwareAddr(fdMap[KeyOf(c)].pod)]_vars

\* C4: the registry holds the key from before the ADD_RESPONSE is written
\* until a RELEASE removes it, and a GET's registry lookup made in that time
\* finds it.
C4_InsertBeforeAddResponse ==
    [][/\ \A k \in DecodedKeys : lastOp'[k].op = "acked" => getFDFound(fds', k)
       /\ \A c \in Conns :
            (pc[c] = "write" /\ pc'[c] = "read" /\ resp[c].cmd = fdAddResponse
               /\ lastOp[KeyOf(c)].op = "added") => getFDFound(fds, KeyOf(c))
       /\ \A c \in Conns :
            (pc[c] = "get" /\ pc'[c] # "get" /\ lastOp[KeyOf(c)].op = "acked")
            => pc'[c] = "info" /\ resp'[c] # ErrorResp("bad fd key")]_vars

\* C4 witness: a GET has passed the registry lookup for a key whose
\* ADD_RESPONSE was written.
C4_Witness ==
    \E c \in Conns :
        /\ pc[c] = "info"
        /\ req[c].cmd = fdGet
        /\ lastOp[KeyOf(c)].op = "acked"

\* C5: once a RELEASE for a key that had been added is answered with
\* RELEASE_RESPONSE, the key is out of the registry and the netns of the pod
\* it was added for is gone.
C5_ReleaseRemovesNetns ==
    [][\A c \in Conns :
        (pc[c] = "write" /\ pc'[c] = "read" /\ resp[c].cmd = fdReleaseResponse
           /\ lastOp[KeyOf(c)].op = "released" /\ lastOp[KeyOf(c)].pod # "none")
        => /\ KeyOf(c) \notin DOMAIN fds'
           /\ lastOp[KeyOf(c)].pod \notin netns']_vars

\* C6: a RELEASE for a key that is not in the registry is answered with an
\* ERROR response, and the connection stays open for the next request.
C6_ReleaseUnknownKeyIsError ==
    [][\A c \in Conns :
        (pc[c] = "release" /\ pc'[c] # "release" /\ KeyOf(c) \notin DOMAIN fds)
        => /\ resp'[c].cmd = fdError
           /\ conn'[c] = "open"
           /\ pc'[c] = "write"]_vars

\* C7: when the source's add returns an error, nothing it acquired is left:
\* namespaces, attachments, taps, DHCP responders and the table are as before
\* the call.
C7_FailedAddRollsBack ==
    [][\A c \in Conns :
        (pc[c] = "add" /\ pc'[c] = "write")
        => UNCHANGED <<netns, attached, taps, dhcp, fdMap>>]_vars

\* C8: for a key that is in the registry the ADD handler does not call the
\* source: the source's table and the pods' resources stay as they were.
C8_NoSourceCallForRegisteredKey ==
    [][\A c \in Conns :
        (pc[c] = "add" /\ pc'[c] # "add" /\ KeyOf(c) \in DOMAIN fds)
        => /\ pc'[c] = "write"
           /\ UNCHANGED <<netns, attached, taps, dhcp, fdMap>>]_vars

\* C9: once Stop has run the listening socket is closed and no connection is
\* accepted any more.
C9_StopClosesListener ==
    [][chClosed => /\ ~lOpen
                   /\ \A c \in Conns : conn[c] = "pending" => conn'[c] # "open"]_vars

\* C10: a header with a wrong magic closes the connection: the request is not
\* dispatched, the registry and the source are untouched, no response is built
\* or written, and nothing is served on the connection afterwards.
C10_BadMagicClosesConnection ==
    [][\A c \in Conns :
        /\ (conn[c] = "open" /\ pc[c] = "read" /\ req[c] # NoReq
              /\ req[c].magic # fdMagic /\ pc'[c] # pc[c])
           => /\ conn'[c] = "bad magic"
              /\ pc'[c] = "done"
              /\ resp'[c] = NoResp
              /\ UNCHANGED <<fds, reply, fdMap, netns, attached, taps, dhcp>>
        /\ conn[c] = "bad magic"
           => /\ conn'[c] = "bad magic"
              /\ pc'[c] = "done"
              /\ reply'[c] = reply[c]
              /\ resp'[c] = NoResp]_vars

\* C10 witness: a connection was closed on a wrong magic.
C10_Witness ==
    \E c \in Conns : conn[c] = "bad magic" /\ req[c].magic = BadMagic

\* C11: a header with a valid magic and a command other than ADD, RELEASE and
\* GET closes the connection: the handler's loop ends and nothing more is
\* served on it.
C11_BadCommandClosesConnection ==
    [][\A c \in Conns :
        (conn[c] = "open" /\ pc[c] = "read" /\ req[c] # NoReq /\ pc'[c] # pc[c]
           /\ req[c].magic = fdMagic /\ req[c].cmd \notin {fdAdd, fdRelease, fdGet})
        => /\ conn'[c] # "open"
           /\ pc'[c] = "done"]_vars

\* C12: a request that fails with a registry or source error (duplicate ADD
\* key, GET of a key not in the registry, source add failure, source info
\* failure) gets one ERROR response: command 0xff, the message as payload, no
\* rights; no step of the failing handler changes the registry; the client
\* receives that response and the handler is back at reading the next header
\* on the open connection.
C12_Errors ==
    {ErrorResp(m) : m \in {"fd key already exists", "bad fd key",
                           "error getting fd", "can't get key info"}}

C12_ErrorResponseKeepsConnection ==
    [][\A c \in Conns :
        /\ (pc[c] \in {"add", "addfd", "get", "info"} /\ pc'[c] = "write"
              /\ resp'[c].cmd = fdError)
           => /\ resp'[c] \in C12_Errors
              /\ resp'[c].fd = NoFd
              /\ resp'[c].data # <<>>
              /\ fds' = fds
        /\ (pc[c] \in {"add", "record"} /\ pc'[c] # pc[c]) => fds' = fds
        /\ (pc[c] = "write" /\ pc'[c] # "write" /\ resp[c] \in C12_Errors)
           => /\ reply'[c] = resp[c]
              /\ conn'[c] = "open"
              /\ pc'[c] = "read"
              /\ req'[c] = NoReq
              /\ fds' = fds]_vars

\* C12 witness: a client has received the duplicate-key error, the registry
\* still holds the key, and the handler is reading on the open connection.
C12_Witness ==
    \E c \in Conns :
        /\ reply[c] = ErrorResp("fd key already exists")
        /\ conn[c] = "open"
        /\ pc[c] = "read"
        /\ fds # [k \in {} |-> NoFd]

\* C13: every descriptor the registry holds is open: nothing closes a
\* descriptor while its key is in the registry.
C13_RegistryFdsOpen ==
    \A k \in DOMAIN fds : fds[k] \in OpenFds

\* C14: when the pod descriptor has a DNS block, the result GetFD returns,
\* decoded, has exactly that DNS block, and everything else as the
\* provisioner returned it.
C14_DNSReplacedWholesale ==
    (respData # <<>> /\ pndDNS # <<>>)
    => /\ UnmarshalResult(respData[1]).dns = pndDNS[1]
       /\ UnmarshalResult(respData[1]).rest = cniResult.rest

\* the step is a call of the FakeCNIClient's Add / Remove
C15_AddStep == fakeHist'.calls = fakeHist.calls + 1 /\ fakeHist'.last = "add"
C15_RemoveStep == fakeHist'.calls = fakeHist.calls + 1 /\ fakeHist'.last = "remove"
\* as long as no call panicked: removed implies added, and each operation
\* succeeded at most once
C15_OneShot ==
    ~fakeHist'.panicked
    => /\ fake'.removed => fake'.added
       /\ fakeHist'.addOk <= 1
       /\ fakeHist'.removeOk <= 1
       /\ fake'.added <=> fakeHist'.addOk = 1
       /\ fake'.removed <=> fakeHist'.removeOk = 1

\* C15: AddSandboxToNetwork panics if it was called before;
\* RemoveSandboxFromNetwork panics if no AddSandboxToNetwork succeeded before
\* or if it was called before; both panic on a pod triple other than the
\* client's; without a panic, removed implies added and each operation
\* succeeded at most once.
C15_FakeLifecycle ==
    [][/\ (C15_AddStep /\ fakeHist.addCalled) => fakeHist'.panicked
       /\ (C15_RemoveStep /\ (fakeHist.addOk = 0 \/ fakeHist.removeCalled))
          => fakeHist'.panicked
       /\ ((C15_AddStep \/ C15_RemoveStep) /\ ~verifyPod(fake, fakeHist'.lastPod))
          => fakeHist'.panicked
       /\ C15_OneShot]_vars

\* C15, amended: AddSandboxToNetwork panics if a call of it succeeded before
\* (a call that returned an error may be repeated); the rest as stated.
C15_FakeLifecycleAfterSuccess ==
    [][/\ (C15_AddStep /\ fakeHist.addOk > 0) => fakeHist'.panicked
       /\ (C15_RemoveStep /\ (fakeHist.addOk = 0 \/ fakeHist.removeCalled))
          => fakeHist'.panicked
       /\ ((C15_AddStep \/ C15_RemoveStep) /\ ~verifyPod(fake, fakeHist'.lastPod))
          => fakeHist'.panicked
       /\ C15_OneShot]_vars

\* C15 witness: an Add that returned an error, then an Add and a Remove that
\* succeeded, none panicking.
C15_Witness ==
    /\ fakeHist.calls = 3
    /\ fakeHist.addOk = 1
    /\ fakeHist.removeOk = 1
    /\ fake.added /\ fake.removed
    /\ ~fakeHist.panicked

\* C16: Release of a recorded key stops the DHCP responder, waits for the
\* serve loop's result, tears the rewiring down, detaches the pod, destroys
\* the netns and deletes the entry, in this order; a step that fails ends the
\* call with the later steps not done, so the entry is deleted only after all
\* of them succeeded; a call that fails before the stop changes nothing.
C16_ReleaseOrder ==
    [][/\ (relPc = "idle" /\ relPc' = "wait")
          => /\ relKey' \in DOMAIN fdMap
             /\ relPod' = fdMap[relKey'].pod
             /\ dhcp'[relPod'] # "serving"
             /\ UNCHANGED <<fdMap, netns, attached, taps>>
       /\ (relPc = "wait" /\ relPc' # "wait")
          => /\ dhcp[relPod] = "sending" /\ dhcp'[relPod] = "delivered"
             /\ attached' # attached => taps'[relPod] = NoFd
             /\ netns' # netns => (taps'[relPod] = NoFd /\ relPod \notin attached')
             /\ relPc' \in {"delete", "idle"}
             /\ relPc' = "delete"
                => /\ taps'[relPod] = NoFd
                   /\ relPod \notin attached'
                   /\ relPod \notin netns'
                   /\ relKey' = relKey
             /\ fdMap' = fdMap
       /\ (DOMAIN fdMap' # DOMAIN fdMap /\ DOMAIN fdMap' \subseteq DOMAIN fdMap)
          => /\ relPc = "delete"
             /\ fdMap' = Drop(fdMap, relKey)
             /\ UNCHANGED <<netns, attached, taps, dhcp>>
       /\ (relPc = "idle" /\ relPc' = "idle" /\ UNCHANGED connVars)
          => UNCHANGED srcVars]_vars

\* C16 witness: a Release ran to its end: the entry of a key that was added is
\* deleted and the pod's netns is gone.
C16_Witness ==
    /\ relPc = "idle"
    /\ nrel >= 1
    /\ \E k \in DecodedKeys :
         /\ lastOp[k].op \in {"added", "acked"}
         /\ k \notin DOMAIN fdMap
         /\ lastOp[k].pod \notin netns
         /\ dhcp[lastOp[k].pod] = "delivered"

\* C17: each request is answered with one response header, in order; a
\* message follows the header iff the response has payload or rights; the
\* header's data_size and oob_size are the lengths sent; the client reads a
\* message iff the header announces one, so it reads all that was written,
\* nothing more, and has the response the server built.
C17_FramingInSync ==
    [][\A c \in Conns :
        (pc[c] = "write" /\ pc'[c] # "write")
        => LET w == ServerWrite(resp[c])
               p == ClientRead(w)
               hasMsg == Len(w) = 2
           IN /\ Len(w) \in {1, 2}
              /\ w[1].kind = "hdr"
              /\ w[1].dataSize = Len(resp[c].data)
              /\ w[1].oobSize = OobLen(resp[c])
              /\ hasMsg <=> (resp[c].data # <<>> \/ resp[c].fd # NoFd)
              /\ hasMsg <=> (w[1].dataSize > 0 \/ w[1].oobSize > 0)
              /\ hasMsg => w[2].kind = "msg" /\ w[2].oobn = w[1].oobSize
              /\ p.ok
              /\ p.rest = <<>>
              /\ reply'[c] = resp[c]
              /\ resp[c].cmd \in {req[c].cmd + fdResponse, fdError}
              /\ pc'[c] = "read"]_vars

\* C17 witness: a client has received a GET_RESPONSE that carries rights and
\* no payload.
C17_Witness ==
    \E c \in Conns :
        /\ reply[c].cmd = fdGetResponse
        /\ reply[c].data = <<>>
        /\ reply[c].fd # NoFd

\* C18: for every request with valid magic, whatever its command, the handler
\* has consumed the request's payload when it goes back to reading a header:
\* no byte of the request is left to be taken for the next header.
C18_PayloadConsumed ==
    [][\A c \in Conns :
        (pc[c] = "write" /\ pc'[c] = "read" /\ MagicOk(req[c]))
        => req'[c] = NoReq]_vars

\* 2^n
RECURSIVE Pow2(_)
Pow2(n) == IF n = 0 THEN 1 ELSE 2 * Pow2(n - 1)

\* C19: the wait after the n-th transient accept failure of the loop is
\* min(5 ms * 2^(n-1), 1 s), never below 5 ms nor above 1 s; when the stop
\* channel the wait selects on is closed during the wait, the loop can leave
\* the wait at once and by doing so exits; a failure that is not transient
\* ends the loop, which never accepts again.
C19_BackoffStep ==
    /\ (acceptPc = "accept" /\ acceptPc' = "backoff")
       => LET n == acceptErrs'
              exp == minAcceptErrorDelay * Pow2(n - 1)
          IN /\ n = acceptErrs + 1
             /\ delay' = IF exp < maxAcceptErrorDelay THEN exp
                         ELSE maxAcceptErrorDelay
             /\ delay' >= minAcceptErrorDelay
             /\ delay' <= maxAcceptErrorDelay
    /\ (acceptPc = "backoff" /\ acceptPc' = "exited")
       => sel = "chan" /\ chClosed
    /\ (acceptPc = "backoff" /\ acceptPc' = "backoff" /\ sel = "chan"
            /\ ~chClosed /\ chClosed')
       => delay' = delay /\ sel' = sel
    /\ (acceptPc = "accept" /\ acceptPc' # "accept")
       => acceptPc' \in {"backoff", "exited"}
    /\ acceptPc = "exited" => acceptPc' = "exited"

C19_Backoff ==
    /\ [][C19_BackoffStep]_vars
    /\ [](acceptPc = "backoff" /\ sel = "chan" /\ chClosed
            => ENABLED BackoffStop)

\* C19 witness: the loop has left a wait of the capped length because the
\* stop channel was closed, after nine or more transient failures.
C19_Witness ==
    /\ acceptPc = "exited"
    /\ acceptErrs >= 9
    /\ delay = maxAcceptErrorDelay
    /\ sel = "chan"
    /\ chClosed

\* C20: the source's table s.fdMap is never accessed by two connection
\* handlers at once: at most one handler is at a read (GetInfo) or an insert
\* (GetFD) of the table.
C20_MapAccessExclusive ==
    Cardinality({c \in Conns : c \in MapWriters \/ c \in MapReaders}) <= 1

\* C21: whenever FDClient.AddFD returns an error to its caller, the registry
\* holds no entry created by that call: the handler that served the call did
\* not insert the key it decoded.
C21_FailedAddLeavesNoEntry ==
    [][\A c \in Conns :
        (pc[c] = "write" /\ pc'[c] = "read" /\ callKey[c] # <<>>
            /\ AddFDResult(callKey[c][1], reply'[c]) # "ok")
        => ~(/\ resp[c].cmd = fdAddResponse
             /\ getFDFound(fds', KeyOf(c))
             /\ lastOp'[KeyOf(c)].op = "acked")]_vars

\* C22: no call of Release blocks forever on the completion channel: while a
\* call waits on doneCh, the entry's DHCP serve task has its completion still
\* to deliver.
C22_ReleaseNeverBlocks ==
    relPc = "wait" => dhcp[relPod] = "sending"

====
